---- MODULE Spec2Model ----
(***************************************************************************)
(* Model of release.ipynb (sat-qecc): the parity-gate compiler xor / pwt,  *)
(* the query sat_distance (matrix reduction, the three clause terms, the   *)
(* solver session, the post-condition checks on a model, the proof check)  *)
(* and the search loop find_weight.                                        *)
(*                                                                         *)
(* A binary matrix is a sequence of rows, a row a sequence of 0/1 entries. *)
(* A literal is a non-zero integer, a clause a sequence of literals, the   *)
(* constraints a sequence of clauses, exactly as the notebook's lists.     *)
(* Python's 0-based positions are written 1-based here; variable numbers   *)
(* are the notebook's own (they are 1-based there too).                    *)
(***************************************************************************)
EXTENDS Integers, Sequences, FiniteSets, TLC

(***************************************************************************)
(* Bounds of the model.                                                    *)
(***************************************************************************)
\* number of columns (physical qubits) of the parity-check matrices
NCols == 4
\* largest number of rows of an input matrix
MaxRows == 2
\* the wide search (SpecWide): WideCols columns, WideRowsX rows of Hx and
\* WideRowsZ rows of Hz
WideCols == 6
WideRowsX == 2
WideRowsZ == 3
\* largest number of literals handed to pwt by the gate harness
MaxK == 4
\* num_vars handed to pwt by the gate harness is at most the largest
\* variable in use plus MaxSlack
MaxSlack == 1
\* the gate harness also calls pwt([1..k], k+1, k+1) for k up to MaxLongK
MaxLongK == 7

(***************************************************************************)
(* Small helpers on sequences and sets.                                    *)
(***************************************************************************)
Abs(i) == IF i < 0 THEN -i ELSE i

Min(S) == CHOOSE m \in S : \A k \in S : m <= k

Max(S) == CHOOSE m \in S : \A k \in S : m >= k

RECURSIVE SumSeq(_)
SumSeq(s) == IF s = <<>> THEN 0 ELSE Head(s) + SumSeq(Tail(s))

\* s[a..b] with Python's slice convention s[a-1:b]
Slice(s, a, b) == IF a > b THEN <<>> ELSE SubSeq(s, a, b)

\* the ascending sequence of the elements of a finite set of integers
RECURSIVE SortedSeq(_)
SortedSeq(S) == IF S = {} THEN <<>> ELSE <<Min(S)>> \o SortedSeq(S \ {Min(S)})

\* list(range(a, b+1))
Range(a, b) == [i \in 1..(IF b >= a THEN b - a + 1 ELSE 0) |-> a + i - 1]

(***************************************************************************)
(* xor(y, x1, x2): the four clauses fixing y = x1 (+) x2.                  *)
(***************************************************************************)
\* xor without its last clause
xorThreeClauses(y, x1, x2) ==
    << <<-y, -x1, -x2>>, <<-y, x1, x2>>, <<y, x1, -x2>> >>

xor(y, x1, x2) ==
    << <<-y, -x1, -x2>>, <<-y, x1, x2>>, <<y, x1, -x2>>, <<y, -x1, x2>> >>

(***************************************************************************)
(* pwt(h, idx, num_vars): clauses for idx = parity of the variables in h,  *)
(* and the number of new ancillas, taken from num_vars+1 on.  ok = FALSE   *)
(* stands for a failed assertion (AssertionError) in this call or in a     *)
(* recursive call.                                                         *)
(***************************************************************************)
\* pwt with "num_new_ancilla=na" for the second half in place of "+=na"
RECURSIVE pwtCountOverwritten(_, _, _)
pwtCountOverwritten(h, idx, num_vars) ==
    IF ~(Len(h) > 0 /\ idx > 0 /\ num_vars > 0)
    THEN [ok |-> FALSE, cons |-> <<>>, na |-> 0]
    ELSE IF Len(h) = 2
    THEN [ok |-> TRUE, cons |-> xor(idx, h[1], h[2]), na |-> 0]
    ELSE IF Len(h) = 3
    THEN LET r == pwtCountOverwritten(Slice(h, 1, 2), num_vars + 1, num_vars + 1)
         IN  [ok   |-> r.ok,
              cons |-> xor(idx, h[3], num_vars + 1) \o r.cons,
              na   |-> 1 + r.na]
    ELSE LET v1 == num_vars + 1
             v2 == num_vars + 2
             B  == Slice(h, 1, Len(h) \div 2)
             C  == Slice(h, Len(h) \div 2 + 1, Len(h))
             rB == pwtCountOverwritten(B, v1, num_vars + 2)
         IN  IF ~rB.ok
             THEN [ok |-> FALSE, cons |-> <<>>, na |-> 0]
             ELSE LET rC == pwtCountOverwritten(C, v2, num_vars + 2 + rB.na)
                  IN  [ok   |-> rC.ok,
                       cons |-> xor(idx, v1, v2) \o rB.cons \o rC.cons,
                       na   |-> rC.na]

\* pwt whose second half is handed num_vars+2, not num_vars+2+na
RECURSIVE pwtSecondHalfNotAdvanced(_, _, _)
pwtSecondHalfNotAdvanced(h, idx, num_vars) ==
    IF ~(Len(h) > 0 /\ idx > 0 /\ num_vars > 0)
    THEN [ok |-> FALSE, cons |-> <<>>, na |-> 0]
    ELSE IF Len(h) = 2
    THEN [ok |-> TRUE, cons |-> xor(idx, h[1], h[2]), na |-> 0]
    ELSE IF Len(h) = 3
    THEN LET r == pwtSecondHalfNotAdvanced(Slice(h, 1, 2), num_vars + 1, num_vars + 1)
         IN  [ok   |-> r.ok,
              cons |-> xor(idx, h[3], num_vars + 1) \o r.cons,
              na   |-> 1 + r.na]
    ELSE LET v1 == num_vars + 1
             v2 == num_vars + 2
             B  == Slice(h, 1, Len(h) \div 2)
             C  == Slice(h, Len(h) \div 2 + 1, Len(h))
             rB == pwtSecondHalfNotAdvanced(B, v1, num_vars + 2)
         IN  IF ~rB.ok
             THEN [ok |-> FALSE, cons |-> <<>>, na |-> 0]
             ELSE LET rC == pwtSecondHalfNotAdvanced(C, v2, num_vars + 2)
                  IN  [ok   |-> rC.ok,
                       cons |-> xor(idx, v1, v2) \o rB.cons \o rC.cons,
                       na   |-> 2 + rB.na + rC.na]

RECURSIVE pwt(_, _, _)
pwt(h, idx, num_vars) ==
    IF ~(Len(h) > 0 /\ idx > 0 /\ num_vars > 0)
    THEN [ok |-> FALSE, cons |-> <<>>, na |-> 0]
    ELSE IF Len(h) = 2
    THEN [ok |-> TRUE, cons |-> xor(idx, h[1], h[2]), na |-> 0]
    ELSE IF Len(h) = 3
    THEN LET r == pwt(Slice(h, 1, 2), num_vars + 1, num_vars + 1)
         IN  [ok   |-> r.ok,
              cons |-> xor(idx, h[3], num_vars + 1) \o r.cons,
              na   |-> 1 + r.na]
    ELSE LET v1 == num_vars + 1
             v2 == num_vars + 2
             B  == Slice(h, 1, Len(h) \div 2)
             C  == Slice(h, Len(h) \div 2 + 1, Len(h))
             rB == pwt(B, v1, num_vars + 2)
         IN  IF ~rB.ok
             THEN [ok |-> FALSE, cons |-> <<>>, na |-> 0]
             ELSE LET rC == pwt(C, v2, num_vars + 2 + rB.na)
                  IN  [ok   |-> rC.ok,
                       cons |-> xor(idx, v1, v2) \o rB.cons \o rC.cons,
                       na   |-> 2 + rB.na + rC.na]

(***************************************************************************)
(* Binary matrices.                                                        *)
(***************************************************************************)
NumCols(M) == Len(M[1])

XorRow(a, b) == [c \in 1..Len(a) |-> (a[c] + b[c]) % 2]

\* the entrywise product row.x summed mod 2, x a 0/1 sequence
Dot(row, x) == SumSeq([c \in 1..Len(row) |-> row[c] * x[c]]) % 2

\* not np.any(np.mod(HX @ HZ.T, 2))
Commute(HX, HZ) == \A i \in 1..Len(HX) : \A j \in 1..Len(HZ) : Dot(HX[i], HZ[j]) = 0

(***************************************************************************)
(* ldpc.mod2.row_echelon(matrix, full=True), as reduced_row_echelon uses   *)
(* it: Gauss-Jordan elimination, column by column; the first row at or     *)
(* below pivot_row holding a 1 is swapped up, the pivot row is added to    *)
(* every other row holding a 1 in that column.  pivot_row counts from 1.   *)
(***************************************************************************)
\* the_matrix[[a, b]] = the_matrix[[b, a]]
SwapRows(M, a, b) == [M EXCEPT ![a] = M[b], ![b] = M[a]]

\* add the pivot row to every other row holding a 1 in column col
Eliminate(M, pivot_row, col) ==
    [j \in 1..Len(M) |->
        IF j /= pivot_row /\ M[j][col] = 1 THEN XorRow(M[j], M[pivot_row]) ELSE M[j]]

\* the rows at or below pivot_row holding a 1 in column col
PivotCandidates(M, pivot_row, col) == {r \in pivot_row..Len(M) : M[r][col] = 1}

RECURSIVE RowEchelonFrom(_, _, _, _)
RowEchelonFrom(M, col, pivot_row, pivot_cols) ==
    IF col > NumCols(M) \/ pivot_row > Len(M)
    THEN [matrix |-> M, rank |-> pivot_row - 1, pivot_cols |-> pivot_cols]
    ELSE IF PivotCandidates(M, pivot_row, col) = {}
    THEN RowEchelonFrom(M, col + 1, pivot_row, pivot_cols)
    ELSE RowEchelonFrom(
             Eliminate(SwapRows(M, Min(PivotCandidates(M, pivot_row, col)), pivot_row),
                       pivot_row, col),
             col + 1, pivot_row + 1, Append(pivot_cols, col))

row_echelon(M) == RowEchelonFrom(M, 1, 1, <<>>)

\* M @ col_transform: column c of the result is column order[c] of M
PermuteCols(M, order) ==
    [r \in 1..Len(M) |-> [c \in 1..Len(order) |-> M[r][order[c]]]]

(***************************************************************************)
(* ldpc.mod2.reduced_row_echelon(matrix): the row-reduced matrix with the  *)
(* pivot columns moved to the front (the other columns follow in order),   *)
(* the rank, the row-reduced matrix before the column move (what           *)
(* row_transform @ matrix is) and the column order (col_transform).        *)
(***************************************************************************)
ColumnOrder(pivot_cols, n) ==
    pivot_cols \o SortedSeq((1..n) \ {pivot_cols[i] : i \in 1..Len(pivot_cols)})

ReducedOf(re, order) ==
    [reduced |-> PermuteCols(re.matrix, order),
     rank    |-> re.rank,
     rowred  |-> re.matrix,
     order   |-> order]

ReducedFrom(re, n) == ReducedOf(re, ColumnOrder(re.pivot_cols, n))

reduced_row_echelon(M) == ReducedFrom(row_echelon(M), NumCols(M))

(***************************************************************************)
(* CardEnc.atmost(lits, bound, top_id, encoding=EncType.seqcounter): the   *)
(* sequential-counter encoding; its auxiliary variable s(i,j) is the       *)
(* ((i-1)*bound + j)-th variable after top_id.                             *)
(***************************************************************************)
SeqCounterVar(top_id, bound, i, j) == top_id + (i - 1) * bound + j

RECURSIVE SeqCounterRow(_, _, _, _, _)
SeqCounterRow(lits, bound, top_id, i, j) ==
    \* the clauses of position i for the counter values j..bound (j >= 2)
    IF j > bound THEN <<>>
    ELSE << <<-lits[i], -SeqCounterVar(top_id, bound, i - 1, j - 1),
              SeqCounterVar(top_id, bound, i, j)>>,
            <<-SeqCounterVar(top_id, bound, i - 1, j),
              SeqCounterVar(top_id, bound, i, j)>> >>
         \o SeqCounterRow(lits, bound, top_id, i, j + 1)

RECURSIVE SeqCounterFrom(_, _, _, _)
SeqCounterFrom(lits, bound, top_id, i) ==
    IF i > Len(lits) - 1 THEN <<>>
    ELSE << <<-lits[i], SeqCounterVar(top_id, bound, i, 1)>>,
            <<-SeqCounterVar(top_id, bound, i - 1, 1),
              SeqCounterVar(top_id, bound, i, 1)>> >>
         \o SeqCounterRow(lits, bound, top_id, i, 2)
         \o << <<-lits[i], -SeqCounterVar(top_id, bound, i - 1, bound)>> >>
         \o SeqCounterFrom(lits, bound, top_id, i + 1)

CardEncAtmost(lits, bound, top_id) ==
    IF bound >= Len(lits) THEN <<>>
    ELSE IF bound = 0 THEN [i \in 1..Len(lits) |-> <<-lits[i]>>]
    ELSE << <<-lits[1], SeqCounterVar(top_id, bound, 1, 1)>> >>
         \o [j \in 1..(bound - 1) |-> <<-SeqCounterVar(top_id, bound, 1, j + 1)>>]
         \o SeqCounterFrom(lits, bound, top_id, 2)
         \o << <<-lits[Len(lits)],
                 -SeqCounterVar(top_id, bound, Len(lits) - 1, bound)>> >>

(***************************************************************************)
(* The compilation pass of sat_distance: reduction of the two matrices,    *)
(* then the three terms in the order third, second, first, threading the   *)
(* watermark "ancillas".  ok = FALSE stands for a failed assertion.        *)
(***************************************************************************)
Failed == [ok |-> FALSE]

\* A = Hz[:rk, rk:].T : row idx (from 1) is column rk+idx of the first rk rows
ExtractA(Hz, rk, n) == [idx \in 1..(n - rk) |-> [i \in 1..rk |-> Hz[i][rk + idx]]]

\* [i+1 for i,j in enumerate(v) if j]
Support(v) == SortedSeq({i \in 1..Len(v) : v[i] /= 0})

\* the "not a stabilizer" loop; idx counts from 0 as in the source
RECURSIVE ThirdTerm(_, _, _, _, _, _)
ThirdTerm(A, n, rk, idx, constraints, ancillas) ==
    IF idx >= n - rk
    THEN [ok |-> TRUE, constraints |-> constraints, ancillas |-> ancillas]
    ELSE LET row == Support(A[idx + 1]) \o <<rk + idx + 1>>
             r   == pwt(row, idx + n + 1, ancillas)
         IN  IF ~r.ok THEN Failed
             ELSE ThirdTerm(A, n, rk, idx + 1, constraints \o r.cons,
                            ancillas + r.na)

\* the variable that receives pwt(h_idx) in the second term (idx from 0)
OutputVar(start_ancillas, idx) == start_ancillas + idx + 1

\* the "commutes with all X stabilizers" loop; idx counts from 0
RECURSIVE SecondTerm(_, _, _, _, _, _)
SecondTerm(Hx, rkx, start_ancillas, idx, constraints, ancillas) ==
    IF idx >= rkx
    THEN [ok |-> TRUE, constraints |-> constraints, ancillas |-> ancillas]
    ELSE LET y == OutputVar(start_ancillas, idx)
             r == pwt(Support(Hx[idx + 1]), y, ancillas)
         IN  IF ~r.ok THEN Failed
             ELSE SecondTerm(Hx, rkx, start_ancillas, idx + 1,
                             (constraints \o << <<-y>> >>) \o r.cons,
                             ancillas + r.na)

\* the reduced Hx left in the caller's column order
ColsLeftAsGiven(Hx, order) == Hx

\* Hx = np.mod(Hx @ col_transform, 2): keep the columns consistent
ConsistentCols(Hx, order) == PermuteCols(Hx, order)

\* lines 183-188: Hx, rkx, Hz, rk, A and the column order
StandardFormOf(n, rx, rz) ==
    [ok    |-> TRUE,
     n     |-> n,
     rk    |-> rz.rank,
     rkx   |-> rx.rank,
     Hx    |-> ConsistentCols(rx.rowred, rz.order),
     A     |-> ExtractA(rz.reduced, rz.rank, n),
     order |-> rz.order]

\* lines 176-188: the assertions on the input and the standard forms
StandardForm(HX, HZ) ==
    IF ~(NumCols(HX) = NumCols(HZ) /\ Commute(HX, HZ)) THEN Failed
    ELSE StandardFormOf(NumCols(HX), reduced_row_echelon(HX), reduced_row_echelon(HZ))

\* w_x <= threshold (first term), seeded with the watermark
FirstTerm(n, threshold, ancillas) == CardEncAtmost(Range(1, n), threshold, ancillas)

\* lines 211-213: the first term is added last
CompileFirst(threshold, sf, t3, t2) ==
    IF ~t2.ok THEN Failed
    ELSE [ok             |-> TRUE,
          n              |-> sf.n,
          start_ancillas |-> t3.ancillas,
          ancillas       |-> t2.ancillas,
          constraints    |-> t2.constraints
                             \o FirstTerm(sf.n, threshold, t2.ancillas)]

\* lines 202-209: the second term starts at the watermark the third left
CompileSecond(threshold, sf, t3) ==
    IF ~t3.ok THEN Failed
    ELSE CompileFirst(threshold, sf, t3,
             SecondTerm(sf.Hx, sf.rkx, t3.ancillas, 0, t3.constraints, t3.ancillas))

\* lines 191-200: the y variables n+1..2n-rk and the third term
CompileThird(threshold, sf) ==
    IF ~sf.ok THEN Failed
    ELSE CompileSecond(threshold, sf,
             ThirdTerm(sf.A, sf.n, sf.rk, 0,
                       << Range(sf.n + 1, 2 * sf.n - sf.rk) >>,
                       2 * sf.n - sf.rk))

\* lines 171-213: the constraints handed to the solver
Compile(threshold, HX, HZ) == CompileThird(threshold, StandardForm(HX, HZ))

(***************************************************************************)
(* The oracle (Glucose42): solve() is TRUE exactly when the constraints    *)
(* are satisfiable, and get_model() is then one of the satisfying          *)
(* assignments.  Satisfiability is decided by unit propagation and         *)
(* branching on the smallest variable.  A clause is read as its set of     *)
(* literals.                                                               *)
(***************************************************************************)
ClauseSet(constraints) ==
    {{c[i] : i \in 1..Len(c)} : c \in {constraints[k] : k \in 1..Len(constraints)}}

\* the clause set once literal l is made true
Assign(C, l) == {c \ {-l} : c \in {d \in C : l \notin d}}

RECURSIVE AssignAll(_, _, _)
AssignAll(C, m, i) == IF i > Len(m) THEN C ELSE AssignAll(Assign(C, m[i]), m, i + 1)

RECURSIVE Satisfiable(_)
Satisfiable(C) ==
    IF C = {} THEN TRUE
    ELSE IF {} \in C THEN FALSE
    ELSE LET units == {c \in C : Cardinality(c) = 1}
         IN  IF units /= {}
             THEN LET u == CHOOSE c \in units : TRUE
                      l == CHOOSE x \in u : TRUE
                  IN  Satisfiable(Assign(C, l))
             ELSE LET v == Min({Abs(x) : x \in UNION C})
                  IN  Satisfiable(Assign(C, v)) \/ Satisfiable(Assign(C, -v))

\* the possible values of model[:n]: one signed literal per variable 1..n
ModelPrefixes(n) ==
    {[i \in 1..n |-> IF i \in S THEN i ELSE -i] : S \in SUBSET (1..n)}

\* the values of g.get_model()[:n] the oracle can return; empty: unsatisfiable
SolveModels(constraints, n) ==
    LET C == ClauseSet(constraints)
    IN  {m \in ModelPrefixes(n) : Satisfiable(AssignAll(C, m, 1))}

(***************************************************************************)
(* The post-condition checks of sat_distance on a model (its first n       *)
(* entries), and the decoding back through the column permutation.         *)
(***************************************************************************)
\* result = [i > 0 for i in model[:n]]
Result(model) == [i \in 1..Len(model) |-> IF model[i] > 0 THEN 1 ELSE 0]

WeightOk(model, threshold) == SumSeq(Result(model)) <= threshold

NullVectorOk(model, Hx) ==
    SumSeq([r \in 1..Len(Hx) |-> Dot(Hx[r], Result(model))]) = 0

\* np.sum(np.mod(A @ x_left + x_right, 2)) > 0
NotStabilizerOk(model, A, rk) ==
    LET x == Result(model)
    IN  SumSeq([idx \in 1..Len(A) |->
                   (SumSeq([i \in 1..rk |-> A[idx][i] * x[i]]) + x[rk + idx]) % 2]) > 0

PostChecksOk(m, threshold, sf) ==
    /\ WeightOk(m, threshold)
    /\ NullVectorOk(m, sf.Hx)
    /\ NotStabilizerOk(m, sf.A, sf.rk)

\* temp: the original qubits of the true entries, in model order
Decode(model, order) ==
    LET pos == SortedSeq({v \in 1..Len(model) : model[v] > 0})
    IN  [k \in 1..Len(pos) |-> order[pos[k]]]

(***************************************************************************)
(* check_proof(proof, cnf): the outcome of the external checker            *)
(* drup.check_proof is "valid", "invalid" (both come back as a result      *)
(* object, which is dropped) or "error" (the conversion or the checker     *)
(* raises).  The function returns True whenever nothing was raised.        *)
(***************************************************************************)
CheckerOutcomes == {"valid", "invalid", "error"}

check_proof(outcome) == [raised |-> outcome = "error", value |-> TRUE]

(***************************************************************************)
(* find_weight: the pieces of its loops.                                   *)
(***************************************************************************)
\* the query asked at the bound itself instead of one below it
ThresholdAtBound(upper) == upper

\* the bound of the query: sat_distance(upper-1, ...)
Threshold(upper) == upper - 1

\* the count taken over out[:num-1], one entry short
WitnessWeightOneShort(model, num) ==
    Cardinality({i \in 1..Len(model) : i < num /\ model[i] > 0})

\* n_upper = sum([val > 0 for val in out[:num]])
WitnessWeight(model, num) ==
    Cardinality({i \in 1..Len(model) : i <= num /\ model[i] > 0})

\* assert 0 < n_upper < upper
BoundOk(n_upper, upper) == 0 < n_upper /\ n_upper < upper

(***************************************************************************)
(* The inputs.                                                             *)
(***************************************************************************)
Bits == {0, 1}

RowsOf(n) == [1..n -> Bits]

\* the matrices of full row rank in reduced row-echelon form, n columns and
\* at most MaxRows rows: one matrix for each row space of that dimension
IsReduced(M) == row_echelon(M).matrix = M /\ row_echelon(M).rank = Len(M)

ReducedMatrices(n) ==
    UNION {{M \in [1..m -> RowsOf(n)] : IsReduced(M)} : m \in 1..MaxRows}

Matrices == ReducedMatrices(NCols)

\* the reduced matrices [I | P] of m rows and n columns
Systematic(n, m) ==
    {[r \in 1..m |-> [c \in 1..n |->
          IF c <= m THEN (IF c = r THEN 1 ELSE 0) ELSE P[r][c - m]]] :
        P \in [1..m -> [1..(n - m) -> Bits]]}

CommutingPairs == {p \in Matrices \X Matrices : Commute(p[1], p[2])}

WideCommutingPairs ==
    {p \in Systematic(WideCols, WideRowsX) \X Systematic(WideCols, WideRowsZ) :
        Commute(p[1], p[2])}

\* the same checks with the first one written twice (a dependent row)
WithRepeatedRow(M) == <<M[1]>> \o M

InputShapes == {"reduced", "repeated"}

Shaped(shape, M) == IF shape = "repeated" THEN WithRepeatedRow(M) ELSE M

(***************************************************************************)
(* The calls pwt(h, idx, num_vars) of the gate harness: h a list of        *)
(* distinct variables, idx a variable not in h, num_vars at least every    *)
(* variable in use.                                                        *)
(***************************************************************************)
GateVars == 1..(MaxK + 1)

DistinctSeqs(k) == {h \in [1..k -> GateVars] : \A i, j \in 1..k : i /= j => h[i] /= h[j]}

SeqRange(h) == {h[i] : i \in 1..Len(h)}

Gates ==
    {[h |-> h, idx |-> idx, num_vars |-> nv] :
        h \in UNION {DistinctSeqs(k) : k \in 2..MaxK},
        idx \in GateVars,
        nv \in (MaxK + 1)..(MaxK + 1 + MaxSlack)}

\* the notebook's own shape of call: pwt([1,...,k], k+1, k+1)
LongGates == {[h |-> Range(1, k), idx |-> k + 1, num_vars |-> k + 1] : k \in 2..MaxLongK}

NoGate == [h |-> <<>>, idx |-> 0, num_vars |-> 0]

NoGateOut == [ok |-> FALSE, cons |-> <<>>, na |-> 0]

NoOut == [sat |-> FALSE, model |-> <<>>]

(***************************************************************************)
(* State.                                                                  *)
(*   entry      which function the caller called                           *)
(*   argHx, argHz, upper_bound, both, switch   the arguments of            *)
(*              find_weight (argHx, argHz, proof and sdT alone for a       *)
(*              direct call of sat_distance)                               *)
(*   pc         position in find_weight / sat_distance                     *)
(*   upper      find_weight's running bound                                *)
(*   sdT, sdX, sdZ, sdProof   the arguments of the running sat_distance    *)
(*   ret        where the running sat_distance returns to                  *)
(*   model      g.get_model()[:n] of the running sat_distance              *)
(*   out        what the last sat_distance returned                        *)
(*   sessions   solver sessions created and not deleted                    *)
(*   checked    what the proof checker said in the last sat_distance       *)
(*   announced  "Proof of no solution verified." was printed               *)
(*   witnessed  the weights of the witnesses find_weight received          *)
(*   queries    the number of sat_distance calls find_weight made          *)
(*   gate, gateOut   the arguments and the result of a direct call of pwt  *)
(***************************************************************************)
\* the number of true entries of a model, counted for the record kept in
\* witnessed
SupportSize(m) == Cardinality({i \in 1..Len(m) : m[i] > 0})

VARIABLES entry, argHx, argHz, upper_bound, both, switch, proof,
          pc, upper, sdT, sdX, sdZ, sdProof, ret, model, out,
          sessions, checked, announced, witnessed, queries, gate, gateOut

vars == <<entry, argHx, argHz, upper_bound, both, switch, proof,
          pc, upper, sdT, sdX, sdZ, sdProof, ret, model, out,
          sessions, checked, announced, witnessed, queries, gate, gateOut>>

args == <<entry, argHx, argHz, upper_bound, both, switch, proof, gate, gateOut>>

\* find_weight: HX, HZ = Hz, Hx if switch else Hx, Hz
HXof == IF switch THEN argHz ELSE argHx

HZof == IF switch THEN argHx ELSE argHz

InitCommon ==
    /\ model = <<>>
    /\ out = NoOut
    /\ sessions = 0
    /\ checked = "none"
    /\ announced = FALSE
    /\ witnessed = {}
    /\ queries = 0

InitMatrices ==
    \E p \in CommutingPairs, shape \in InputShapes :
        /\ argHx = Shaped(shape, p[1])
        /\ argHz = Shaped(shape, p[2])

\* a call find_weight(argHx, argHz, upper_bound, both, switch)
InitFindWeight(n) ==
    /\ entry = "find_weight"
    /\ upper_bound \in 1..(n + 1)
    /\ both \in BOOLEAN
    /\ switch \in BOOLEAN
    /\ proof = FALSE
    /\ pc = "fw_loop1"
    /\ upper = upper_bound
    /\ sdT = 0 /\ sdX = <<>> /\ sdZ = <<>> /\ sdProof = FALSE
    /\ ret = "none"

\* a call sat_distance(sdT, argHx, argHz, proof)
InitSatDistance(n) ==
    /\ entry = "sat_distance"
    /\ upper_bound = 0 /\ both = FALSE /\ switch = FALSE
    /\ proof \in BOOLEAN
    /\ pc = "sd_start"
    /\ upper = 0
    /\ sdT \in 0..n
    /\ sdX = argHx /\ sdZ = argHz /\ sdProof = proof
    /\ ret = "sd_done"

Init ==
    /\ InitCommon
    /\ InitMatrices
    /\ (InitFindWeight(NCols) \/ InitSatDistance(NCols))
    /\ gate = NoGate /\ gateOut = NoGateOut

\* the wide search: find_weight(argHx, argHz, WideCols+1, both=True)
InitWide ==
    /\ InitCommon
    /\ \E p \in WideCommutingPairs : argHx = p[1] /\ argHz = p[2]
    /\ entry = "find_weight"
    /\ upper_bound = WideCols + 1
    /\ both = TRUE
    /\ switch = FALSE
    /\ proof = FALSE
    /\ pc = "fw_loop1"
    /\ upper = upper_bound
    /\ sdT = 0 /\ sdX = <<>> /\ sdZ = <<>> /\ sdProof = FALSE
    /\ ret = "none"
    /\ gate = NoGate /\ gateOut = NoGateOut

\* the gate harness: a call pwt(gate.h, gate.idx, gate.num_vars)
InitPwt ==
    /\ InitCommon
    /\ entry = "pwt"
    /\ argHx = <<>> /\ argHz = <<>>
    /\ upper_bound = 0 /\ both = FALSE /\ switch = FALSE /\ proof = FALSE
    /\ pc = "pwt_call"
    /\ upper = 0
    /\ sdT = 0 /\ sdX = <<>> /\ sdZ = <<>> /\ sdProof = FALSE
    /\ ret = "none"
    /\ gate \in {g \in Gates : g.idx \notin SeqRange(g.h)} \cup LongGates
    /\ gateOut = NoGateOut

(***************************************************************************)
(* sat_distance.                                                           *)
(***************************************************************************)
\* line 216-220: the session is created and solve() answers
SdSolve(ms) ==
    /\ sessions' = sessions + 1
    /\ IF ms = {}
       THEN pc' = "sd_unsat" /\ model' = <<>>
       ELSE pc' = "sd_sat" /\ model' \in ms

SdCompiled(cc) ==
    IF ~cc.ok
    THEN pc' = "aborted" /\ UNCHANGED <<model, sessions>>
    ELSE SdSolve(SolveModels(cc.constraints, cc.n))

\* lines 171-220: the assertions on the input, the compilation, the
\* creation of the solver session and solve()
SdCompileSolve ==
    /\ pc = "sd_start"
    /\ SdCompiled(Compile(sdT, sdX, sdZ))
    /\ checked' = "none"
    /\ announced' = FALSE
    /\ UNCHANGED <<args, upper, sdT, sdX, sdZ, sdProof, ret, out, witnessed, queries>>

\* lines 221-234: the checks on the model, g.delete(), return model
SdAccept ==
    /\ pc = "sd_sat"
    /\ IF PostChecksOk(model, sdT, StandardForm(sdX, sdZ))
       THEN /\ sessions' = sessions - 1
            /\ out' = [sat |-> TRUE, model |-> model]
            /\ pc' = ret
       ELSE /\ pc' = "aborted"
            /\ UNCHANGED <<sessions, out>>
    /\ UNCHANGED <<args, upper, sdT, sdX, sdZ, sdProof, ret, model, checked,
                   announced, witnessed, queries>>

\* line 237: assert check_proof(...), then the print
SdProofChecked(outcome, r) ==
    /\ checked' = outcome
    /\ IF r.raised \/ ~r.value
       THEN /\ pc' = "aborted"
            /\ UNCHANGED <<sessions, out, announced>>
       ELSE /\ announced' = TRUE
            /\ sessions' = sessions - 1
            /\ out' = NoOut
            /\ pc' = ret

\* lines 235-240: the proof check when asked for, g.delete(), return False
SdRefute ==
    /\ pc = "sd_unsat"
    /\ IF sdProof
       THEN \E outcome \in CheckerOutcomes : SdProofChecked(outcome, check_proof(outcome))
       ELSE /\ sessions' = sessions - 1
            /\ out' = NoOut
            /\ pc' = ret
            /\ UNCHANGED <<checked, announced>>
    /\ UNCHANGED <<args, upper, sdT, sdX, sdZ, sdProof, ret, model, witnessed, queries>>

(***************************************************************************)
(* find_weight.                                                            *)
(***************************************************************************)
\* line 276: out = sat_distance(upper-1, HX, HZ, switch=switch)
FwQuery1 ==
    /\ pc = "fw_loop1"
    /\ sdT' = Threshold(upper)
    /\ sdX' = HXof /\ sdZ' = HZof /\ sdProof' = FALSE
    /\ ret' = "fw_got1"
    /\ pc' = "sd_start"
    /\ queries' = queries + 1
    /\ UNCHANGED <<args, upper, model, out, sessions, checked, announced, witnessed>>

\* the loop body without "upper=n_upper"
FwShrinkBoundKept(n_upper, again) ==
    IF BoundOk(n_upper, upper)
    THEN /\ upper' = upper
         /\ witnessed' = witnessed \cup {SupportSize(out.model)}
         /\ pc' = again
    ELSE /\ pc' = "fw_assert_failed"
         /\ UNCHANGED <<upper, witnessed>>

\* lines 279-282 and 292-295: the witness weight becomes the bound
FwShrink(n_upper, again) ==
    IF BoundOk(n_upper, upper)
    THEN /\ upper' = n_upper
         /\ witnessed' = witnessed \cup {SupportSize(out.model)}
         /\ pc' = again
    ELSE /\ pc' = "fw_assert_failed"
         /\ UNCHANGED <<upper, witnessed>>

\* lines 277-284: the first loop's use of the answer
FwStep1 ==
    /\ pc = "fw_got1"
    /\ IF out.sat
       THEN FwShrink(WitnessWeight(out.model, NumCols(HXof)), "fw_loop1")
       ELSE /\ pc' = IF both THEN "fw_loop2" ELSE "fw_done"
            /\ UNCHANGED <<upper, witnessed>>
    /\ UNCHANGED <<args, sdT, sdX, sdZ, sdProof, ret, model, out, sessions,
                   checked, announced, queries>>

\* line 289: out = sat_distance(upper-1, HZ, HX, switch=not switch)
FwQuery2 ==
    /\ pc = "fw_loop2"
    /\ sdT' = Threshold(upper)
    /\ sdX' = HZof /\ sdZ' = HXof /\ sdProof' = FALSE
    /\ ret' = "fw_got2"
    /\ pc' = "sd_start"
    /\ queries' = queries + 1
    /\ UNCHANGED <<args, upper, model, out, sessions, checked, announced, witnessed>>

\* lines 290-297: the second loop's use of the answer
FwStep2 ==
    /\ pc = "fw_got2"
    /\ IF out.sat
       THEN FwShrink(WitnessWeight(out.model, NumCols(HZof)), "fw_loop2")
       ELSE /\ pc' = "fw_done"
            /\ UNCHANGED <<upper, witnessed>>
    /\ UNCHANGED <<args, sdT, sdX, sdZ, sdProof, ret, model, out, sessions,
                   checked, announced, queries>>

(***************************************************************************)
(* The gate harness: one call of pwt.                                      *)
(***************************************************************************)
PwtCall ==
    /\ pc = "pwt_call"
    /\ gateOut' = pwt(gate.h, gate.idx, gate.num_vars)
    /\ pc' = "pwt_done"
    /\ UNCHANGED <<entry, argHx, argHz, upper_bound, both, switch, proof, gate,
                   upper, sdT, sdX, sdZ, sdProof, ret, model, out, sessions,
                   checked, announced, witnessed, queries>>

Next ==
    \/ SdCompileSolve
    \/ SdAccept
    \/ SdRefute
    \/ FwQuery1
    \/ FwStep1
    \/ FwQuery2
    \/ FwStep2

Spec == Init /\ [][Next]_vars

SpecWide == InitWide /\ [][Next]_vars

\* the call has returned or raised: no statement is left to run
Stopped == pc \in {"fw_done", "sd_done", "pwt_done", "aborted", "fw_assert_failed"}

\* The interpreter runs the next statement whenever there is one.  This is
\* WF_vars(Next), that is []<>~ENABLED <<Next>>_vars \/ []<><<Next>>_vars,
\* with ENABLED <<Next>>_vars written out as ~Stopped: every action is
\* guarded by one value of pc only and always changes pc.
SpecFair == Init /\ [][Next]_vars /\ ([]<>Stopped \/ []<><<Next>>_vars)

NextPwt == PwtCall

SpecPwt == InitPwt /\ [][NextPwt]_vars

(***************************************************************************)
(* What the claims speak of, stated on the caller's matrices alone.        *)
(***************************************************************************)
Vectors(n) == [1..n -> Bits]

Weight(x) == Cardinality({i \in 1..Len(x) : x[i] = 1})

InNullSpace(H, x) == \A r \in 1..Len(H) : Dot(H[r], x) = 0

\* the sum mod 2 of the rows of H picked by S
RowSum(H, S) ==
    [c \in 1..NumCols(H) |-> Cardinality({r \in S : H[r][c] = 1}) % 2]

RowSpace(H) == {RowSum(H, S) : S \in SUBSET (1..Len(H))}

\* the operators the decision problem asks for: H_X.x = 0 and x not a
\* product of the stabilizers H_Z
LogicalOperators(HX, HZ) ==
    {x \in Vectors(NumCols(HX)) : InNullSpace(HX, x) /\ x \notin RowSpace(HZ)}

OperatorWithin(threshold, HX, HZ) ==
    \E x \in LogicalOperators(HX, HZ) : Weight(x) <= threshold

Distance(HX, HZ) == Min({Weight(x) : x \in LogicalOperators(HX, HZ)})

\* sat_distance has returned to its caller (out holds what it returned)
SdReturned == pc \in {"sd_done", "fw_got1", "fw_got2"}

(***************************************************************************)
(* C1, as claimed: once sat_distance has returned, it returned a model     *)
(* exactly when some x of weight <= threshold has H_X.x = 0 and lies       *)
(* outside the row space of H_Z (and False exactly when there is none).    *)
(* The compiled clauses do not say that: the output variable of a          *)
(* second-term row is also the first ancilla pwt hands out for it or the   *)
(* first auxiliary variable of the cardinality encoder.                    *)
(***************************************************************************)
C1_ModelIffOperator ==
    SdReturned => (out.sat <=> OperatorWithin(sdT, sdX, sdZ))

(***************************************************************************)
(* C3, as claimed: when H_X.H_Z^T = 0, a logical operator exists and       *)
(* upper_bound is at least the least weight d of one, find_weight with     *)
(* both=False, switch=False returns exactly d.                             *)
(***************************************************************************)
C3_ReturnsDistance ==
    (/\ pc = "fw_done"
     /\ ~both /\ ~switch
     /\ LogicalOperators(argHx, argHz) # {}
     /\ upper_bound >= Distance(argHx, argHz))
        => upper = Distance(argHx, argHz)

(***************************************************************************)
(* C5, as claimed: whatever find_weight returns is the weight of a         *)
(* witness that sat_distance returned within the same call.                *)
(***************************************************************************)
C5_AlwaysAWitnessWeight ==
    pc = "fw_done" => upper \in witnessed

(***************************************************************************)
(* C5, amended: find_weight returns upper_bound itself when no query of    *)
(* the call was satisfiable, and otherwise the least weight among the      *)
(* witnesses sat_distance returned within the call (the last of them).     *)
(***************************************************************************)
C5_WitnessWeightOrUpperBound ==
    pc = "fw_done" =>
        IF witnessed = {} THEN upper = upper_bound ELSE upper = Min(witnessed)

\* find_weight has returned after at least two satisfiable queries
C5_Witness ==
    pc = "fw_done" /\ Cardinality(witnessed) >= 2 /\ upper = Min(witnessed)

(***************************************************************************)
(* C6: in both loops of find_weight every satisfiable answer has a         *)
(* witness weight n_upper with 0 < n_upper < upper, so the assertion never *)
(* fails and upper becomes n_upper, strictly smaller; upper never          *)
(* increases within a call.                                                *)
(***************************************************************************)
C6_UpperStrictlyDecreases ==
    [][/\ upper' <= upper
       /\ pc' # "fw_assert_failed"
       /\ (pc \in {"fw_got1", "fw_got2"} /\ out.sat) =>
            /\ 0 < SupportSize(out.model)
            /\ SupportSize(out.model) < upper
            /\ upper' = SupportSize(out.model)
            /\ upper' < upper]_vars

\* the second loop has just replaced the bound the first loop left by a
\* smaller witness weight
C6_Witness ==
    /\ pc = "fw_loop2" /\ ret = "fw_got2" /\ out.sat
    /\ Cardinality(witnessed) >= 2
    /\ upper = SupportSize(out.model)

\* the vector over the caller's qubits that the printed indices name
Printed(m, order) ==
    [q \in 1..Len(m) |->
        IF \E k \in 1..Len(Decode(m, order)) : Decode(m, order)[k] = q THEN 1 ELSE 0]

\* the column order sat_distance worked under in the last call
OrderUsed == StandardForm(sdX, sdZ).order

(***************************************************************************)
(* C8: every model sat_distance returns is genuine.  Its first n entries,  *)
(* mapped back to the caller's qubits through the column order (the        *)
(* printed indices), give an x of weight <= threshold with H_X.x = 0 and   *)
(* x outside the row space of H_Z, for the matrices the caller passed.     *)
(***************************************************************************)
C8_ReturnedModelGenuine ==
    (SdReturned /\ out.sat) =>
        /\ Weight(Printed(out.model, OrderUsed)) = SupportSize(out.model)
        /\ Weight(Printed(out.model, OrderUsed)) <= sdT
        /\ InNullSpace(sdX, Printed(out.model, OrderUsed))
        /\ Printed(out.model, OrderUsed) \notin RowSpace(sdZ)

\* a model came back from a call whose columns were really permuted and
\* whose printed vector differs from the model's own positions
C8_Witness ==
    /\ SdReturned /\ out.sat
    /\ OrderUsed # Range(1, Len(OrderUsed))
    /\ Printed(out.model, OrderUsed) # Result(out.model)

(***************************************************************************)
(* C9, as claimed: with proof=True, an unsatisfiable answer of             *)
(* sat_distance comes back as False only if the external checker accepted  *)
(* the certificate.                                                        *)
(***************************************************************************)
C9_FalseOnlyIfAccepted ==
    (SdReturned /\ sdProof /\ ~out.sat) => checked = "valid"

(***************************************************************************)
(* C10, as claimed: once a solver session has been created, it is released *)
(* on every way out of sat_distance: the return of a model, the return of  *)
(* False, and an exception after the session was created.                  *)
(***************************************************************************)
C10_SessionReleased ==
    pc \notin {"sd_sat", "sd_unsat"} => sessions = 0

\* the variables of a gate, and the ancillas its clauses were given
GateInputs(g) == SeqRange(g.h) \cup {g.idx}

GateAncillas(g, r) == (g.num_vars + 1)..(g.num_vars + r.na)

\* every clause has a true literal when exactly the variables in T are true
Holds(cons, T) ==
    \A c \in 1..Len(cons) :
        \E k \in 1..Len(cons[c]) :
            \/ cons[c][k] > 0 /\ cons[c][k] \in T
            \/ cons[c][k] < 0 /\ (-cons[c][k]) \notin T

\* the parity of the variables of h that are true in T
Parity(h, T) == Cardinality({i \in 1..Len(h) : h[i] \in T}) % 2

(***************************************************************************)
(* C2: for h of k >= 2 distinct variables, idx not in h and num_vars at    *)
(* least every variable in use, the clauses pwt returns encode             *)
(* idx = XOR of h: an assignment to h and idx extends to the ancillas      *)
(* num_vars+1.. so that every clause holds exactly when idx equals the     *)
(* parity of h.  For k = 2 these are the four clauses of y = x1 xor x2.    *)
(***************************************************************************)
C2_GateIsParity ==
    pc = "pwt_done" =>
        /\ gateOut.ok
        /\ \A T \in SUBSET GateInputs(gate) :
              (\E S \in SUBSET GateAncillas(gate, gateOut) : Holds(gateOut.cons, T \cup S))
                  <=> ((gate.idx \in T) <=> (Parity(gate.h, T) = 1))
        /\ Len(gate.h) = 2 => Len(gateOut.cons) = 4 /\ gateOut.na = 0

\* a gate over four unsorted variables, split into two halves, with slack
\* between the variables in use and num_vars
C2_Witness ==
    /\ pc = "pwt_done" /\ gateOut.ok
    /\ Len(gate.h) = 4 /\ gate.h[1] > gate.h[2]
    /\ gate.num_vars > Max(GateInputs(gate))
    /\ Len(gateOut.cons) = 12

(***************************************************************************)
(* C4: pwt on k >= 2 variables uses exactly k - 2 new ancillas (0 for      *)
(* k = 2, 1 for k = 3, 5 for k = 7), whatever idx, num_vars and the order  *)
(* of h.                                                                   *)
(***************************************************************************)
C4_AncillaCount ==
    pc = "pwt_done" => gateOut.ok /\ gateOut.na = Len(gate.h) - 2

\* the notebook's call pwt([1,...,7], 8, 8) has returned 5 ancillas
C4_Witness ==
    pc = "pwt_done" /\ gate.h = Range(1, 7) /\ gateOut.na = 5

\* what a call find_weight(HX, HZ, bound, both=False) can return, over
\* every model the oracle may hand back (no value when the call raises)
RECURSIVE OnePassReturns(_, _, _)
WeightsThen(HX, HZ, bound, ms) ==
    IF ms = {} THEN {bound}
    ELSE UNION {IF BoundOk(WitnessWeight(m, NumCols(HX)), bound)
                    /\ PostChecksOk(m, Threshold(bound), StandardForm(HX, HZ))
                THEN OnePassReturns(HX, HZ, WitnessWeight(m, NumCols(HX)))
                ELSE {} : m \in ms}

CompiledThen(HX, HZ, bound, cc) ==
    IF ~cc.ok THEN {}
    ELSE WeightsThen(HX, HZ, bound, SolveModels(cc.constraints, cc.n))

OnePassReturns(HX, HZ, bound) ==
    CompiledThen(HX, HZ, bound, Compile(Threshold(bound), HX, HZ))

\* the two separate calls both return
SeparateCallsReturn ==
    /\ OnePassReturns(argHx, argHz, upper_bound) # {}
    /\ OnePassReturns(argHz, argHx, upper_bound) # {}

(***************************************************************************)
(* C7, as claimed: what find_weight(Hx, Hz, p, both=True) returns equals   *)
(* min(find_weight(Hx, Hz, p), find_weight(Hx, Hz, p, switch=True)).       *)
(* Stated in the reading most favourable to the claim: the value returned  *)
(* with both=True is the minimum of a value the first separate call can    *)
(* return and a value the second can return, for some choice of the        *)
(* witnesses the oracle returns in them.                                   *)
(***************************************************************************)
C7_BothIsMinOfSeparate ==
    (pc = "fw_done" /\ both /\ ~switch /\ SeparateCallsReturn) =>
        \E a \in OnePassReturns(argHx, argHz, upper_bound),
           b \in OnePassReturns(argHz, argHx, upper_bound) :
            upper = Min({a, b})

(***************************************************************************)
(* The compilation pass seen from the inside: the watermark and the        *)
(* clauses at the point where the second term starts (line 204) and at     *)
(* the call of the cardinality encoder (line 212).                         *)
(***************************************************************************)
\* lines 193-200: the clauses and the watermark after the third term
AfterThird(sf) ==
    ThirdTerm(sf.A, sf.n, sf.rk, 0, << Range(sf.n + 1, 2 * sf.n - sf.rk) >>,
              2 * sf.n - sf.rk)

\* lines 204-209: the same after the second term; start is start_ancillas
AfterSecondOf(start_ancillas, t2) ==
    [ok |-> t2.ok, start_ancillas |-> start_ancillas, second |-> t2]

AfterSecondFrom(sf, t3) ==
    IF ~t3.ok THEN Failed
    ELSE AfterSecondOf(t3.ancillas,
             SecondTerm(sf.Hx, sf.rkx, t3.ancillas, 0, t3.constraints, t3.ancillas))

AfterSecond(sf) == IF ~sf.ok THEN Failed ELSE AfterSecondFrom(sf, AfterThird(sf))

\* the variables of a sequence of clauses
VarsOf(constraints) ==
    UNION {{Abs(constraints[c][k]) : k \in 1..Len(constraints[c])} :
              c \in 1..Len(constraints)}

\* sat_distance has compiled sdX, sdZ without a failed assertion
SdCompiledOk == pc \in {"sd_sat", "sd_unsat"}

\* the output variables of the rows of the second term
OutputVars(sf, start_ancillas) ==
    {OutputVar(start_ancillas, idx) : idx \in 0..(sf.rkx - 1)}

\* the ancillas pwt was given for the rows of the second term
SecondTermAncillas(t2) == (t2.start_ancillas + 1)..(t2.second.ancillas)

OutputsFreshIn(sf, t2) ==
    /\ OutputVars(sf, t2.start_ancillas) \cap SecondTermAncillas(t2) = {}
    /\ Cardinality(OutputVars(sf, t2.start_ancillas)) = sf.rkx

OutputsFresh(sf) == OutputsFreshIn(sf, AfterSecond(sf))

(***************************************************************************)
(* C11, as claimed: in the second term of a compiled instance the output   *)
(* variable start_ancillas+idx+1 of each reduced row of HX differs from    *)
(* every ancilla pwt allocates for a row of that term and from the output  *)
(* variables of the other rows.                                            *)
(***************************************************************************)
C11_OutputVarsFresh ==
    SdCompiledOk => OutputsFresh(StandardForm(sdX, sdZ))

\* the auxiliary variables of the cardinality encoder in the first term
EncoderVars(sf, threshold, t2) ==
    VarsOf(FirstTerm(sf.n, threshold, t2.second.ancillas)) \ (1..sf.n)

\* at line 212: the watermark covers every variable used so far, and the
\* encoder's auxiliary variables are new
WatermarkCoversIn(sf, threshold, t2) ==
    /\ t2.start_ancillas <= t2.second.ancillas
    /\ \A v \in VarsOf(t2.second.constraints) : v <= t2.second.ancillas
    /\ EncoderVars(sf, threshold, t2) \cap VarsOf(t2.second.constraints) = {}

WatermarkCovers(sf, threshold) == WatermarkCoversIn(sf, threshold, AfterSecond(sf))

(***************************************************************************)
(* C12, as claimed: the watermark ancillas never decreases and, at the     *)
(* call of the cardinality encoder, top_id=ancillas is at least every      *)
(* variable of the clauses of the third and second terms, so the encoder's *)
(* auxiliary variables are disjoint from every variable used before.       *)
(***************************************************************************)
C12_WatermarkCoversLiterals ==
    SdCompiledOk => WatermarkCovers(StandardForm(sdX, sdZ), sdT)

\* the xor gates of a clause list come four clauses at a time; the target
\* of a gate is the variable of the first literal of its first clause
GateTargets(cons, v) ==
    {g \in 1..(Len(cons) \div 4) : Abs(cons[4 * (g - 1) + 1][1]) = v}

\* the ancillas a recursive call used: its variables other than its inputs
\* and its target
AncillasUsed(r, h, idx) == VarsOf(r.cons) \ (SeqRange(h) \cup {idx})

\* the two recursive calls of the case len(h) >= 4: pwt(B, v1, num_vars+2)
\* and pwt(C, v2, num_vars+2+na)
HalvesConsecutiveIn(B, C, num_vars, rB, rC) ==
    /\ AncillasUsed(rB, B, num_vars + 1)
           = (num_vars + 3)..(num_vars + 2 + rB.na)
    /\ AncillasUsed(rC, C, num_vars + 2)
           = (num_vars + 3 + rB.na)..(num_vars + 2 + rB.na + rC.na)
    /\ rB.na + rC.na = Len(B) + Len(C) - 4

HalvesConsecutiveOf(B, C, num_vars, rB) ==
    HalvesConsecutiveIn(B, C, num_vars, rB, pwt(C, num_vars + 2, num_vars + 2 + rB.na))

HalvesConsecutive(h, num_vars) ==
    HalvesConsecutiveOf(Slice(h, 1, Len(h) \div 2),
                        Slice(h, Len(h) \div 2 + 1, Len(h)),
                        num_vars,
                        pwt(Slice(h, 1, Len(h) \div 2), num_vars + 1, num_vars + 2))

ThirdTermLists(sf) ==
    {Support(sf.A[idx + 1]) \o <<sf.rk + idx + 1>> : idx \in 0..(sf.n - sf.rk - 1)}

\* line 207: the literal lists of the second term, one for each reduced row
SecondTermLists(sf) == {Support(sf.Hx[idx + 1]) : idx \in 0..(sf.rkx - 1)}

PwtLists(sf) == ThirdTermLists(sf) \cup SecondTermLists(sf)

\* sat_distance has been through its compilation pass on sdX, sdZ
SdCompileDone == pc \in {"sd_sat", "sd_unsat", "sd_done", "fw_got1", "fw_got2"}

\* sat_distance raised before the solver session was created
SdCompileRaised == pc = "aborted" /\ sessions = 0

(***************************************************************************)
(* C14, as claimed: for every commuting pair (HX, HZ) every literal list   *)
(* sat_distance passes to pwt has length >= 2, and the compilation         *)
(* completes without a failed assertion.                                   *)
(***************************************************************************)
C14_ListsAtLeastTwo ==
    /\ ~SdCompileRaised
    /\ (SdCompileDone \/ SdCompileRaised) =>
           \A h \in PwtLists(StandardForm(sdX, sdZ)) : Len(h) >= 2

\* find_weight has been left: by return upper or by an exception
FwExited == pc \in {"fw_done", "aborted", "fw_assert_failed"}

\* the second pass has begun
InSecondPass == ret = "fw_got2"

\* every satisfiable answer lowered upper by at least one and each pass has
\* at most one unsatisfiable answer, so no pass asks more than upper_bound
\* queries
QueriesBounded ==
    entry = "find_weight" =>
        /\ upper >= 1
        /\ queries <= (upper_bound - upper) + (IF InSecondPass THEN 2 ELSE 1)
        /\ ~InSecondPass => queries <= upper_bound

\* a pass goes on after a satisfiable answer and ends at the first
\* unsatisfiable one
ConvergesAtFirstUnsat ==
    /\ (pc = "fw_got1" /\ out.sat) => pc' = "fw_loop1"
    /\ (pc = "fw_got2" /\ out.sat) => pc' = "fw_loop2"
    /\ (pc = "fw_got1" /\ ~out.sat) =>
          pc' = (IF both THEN "fw_loop2" ELSE "fw_done") /\ upper' = upper
    /\ (pc = "fw_got2" /\ ~out.sat) => pc' = "fw_done" /\ upper' = upper

(***************************************************************************)
(* C15: for every upper_bound >= 1 and every sequence of oracle answers    *)
(* find_weight terminates: a pass keeps searching only while the queries   *)
(* are satisfiable, ends at the first unsatisfiable query, and asks at     *)
(* most upper_bound queries, because the bound strictly decreases and      *)
(* stays positive.                                                         *)
(***************************************************************************)
C15_FindWeightTerminates ==
    /\ []QueriesBounded
    /\ [][ConvergesAtFirstUnsat]_vars
    /\ (entry = "find_weight") ~> FwExited

\* find_weight has returned after a first pass of upper_bound queries, all
\* but the last satisfiable
C15_Witness ==
    /\ pc = "fw_done" /\ ~both
    /\ queries = upper_bound /\ queries >= 3
    /\ upper = 1

====
